---- MODULE Spec2Model ----
(***************************************************************************)
(* Model of the RAG chatbot's evidence-gating chat loop (the chat CLI),    *)
(* its scoring helpers, its citation extraction and the Chroma metadata    *)
(* sanitizer.                                                              *)
(*                                                                         *)
(* Text (questions, chunk contents) is a sequence of one-character         *)
(* strings, so that tokenizing, slicing, lower-casing and substring        *)
(* search are computed character by character.  Citation labels and        *)
(* metadata strings are TLA+ strings, built with \o.                       *)
(***************************************************************************)
EXTENDS Integers, Sequences, FiniteSets, TLC

VARIABLES
    pc,         \* where main() is suspended, or how it ended
    question,   \* `question` of the current loop iteration (trimmed input)
    k,          \* `k` of the current loop iteration
    retrieved,  \* `retrieved`: the chunks similaritySearch returned
    score,      \* `score`: evidenceScore(question, retrieved)
    enough,     \* result of hasEnoughEvidence(question, retrieved)
    citations,  \* `citations` of the current loop iteration
    calls,      \* external calls of the current iteration, with their status
    printed,    \* console.log lines of the current loop iteration
    errout,     \* console.error lines
    rlOpen,     \* the readline interface has not been closed
    exitCode,   \* -1 while the process runs, else its exit status
    context,    \* `context` of the current loop iteration
    thrown,     \* what a failed external call threw: "none", "Error", "other"
    meta,       \* a metadata mapping handed to / returned by the sanitizer
    prevMeta,   \* the mapping before the last sanitizer call
    sanCalls,   \* how many times the sanitizer has been applied to meta
    arg,        \* the argument of a function studied on its own
    result,     \* what that function returned
    ingest      \* the ingestion run: the documents as loaded, as returned by
                \* loadDocuments, the chunks, and what the store was given

vars == <<pc, question, k, retrieved, score, enough, citations, calls,
          printed, errout, rlOpen, exitCode, context, thrown,
          meta, prevMeta, sanCalls, arg, result, ingest>>

chatVars == <<pc, question, k, retrieved, score, enough, citations, calls,
              printed, errout, rlOpen, exitCode, context, thrown>>

sanVars == <<meta, prevMeta, sanCalls>>

auxVars == <<arg, result, ingest>>

-----------------------------------------------------------------------------
(* Bounds of the model.                                                    *)

MaxRetrieved == 3    \* longest result list of similaritySearch in the chat loop
MaxScoreDocs == 4    \* longest chunk list handed to the scorer
MaxCiteDocs == 6     \* longest chunk list handed to the citation extractor
MaxMetaKeys == 2     \* most keys of a mapping handed to the sanitizer
MaxTextLen == 5      \* longest enumerated text handed to the tokenizer
MaxKLen == 3         \* longest text typed at the TopK prompt
MaxLoaded == 2       \* most documents the directory loader returns
MaxChunksPerDoc == 2 \* most chunks the splitter makes of one document

-----------------------------------------------------------------------------
(* Characters and strings.                                                 *)

UpperChars ==
    <<"A", "B", "C", "D", "E", "F", "G", "H", "I", "J", "K", "L", "M",
      "N", "O", "P", "Q", "R", "S", "T", "U", "V", "W", "X", "Y", "Z">>

LowerChars ==
    <<"a", "b", "c", "d", "e", "f", "g", "h", "i", "j", "k", "l", "m",
      "n", "o", "p", "q", "r", "s", "t", "u", "v", "w", "x", "y", "z">>

DigitChars ==
    <<"0", "1", "2", "3", "4", "5", "6", "7", "8", "9">>

SpaceChars ==
    {" ", "\t", "\n"}

PunctChars ==
    {",", ".", "!", "?", ":", ";", "-", "_"}

Range(s) ==
    {s[i] : i \in 1..Len(s)}

Alphabet ==
    Range(UpperChars) \cup Range(LowerChars) \cup Range(DigitChars)
        \cup SpaceChars \cup PunctChars

\* String.prototype.toLowerCase, one character.
LowerMap ==
    [c \in Alphabet |->
        IF \E i \in 1..26 : UpperChars[i] = c
        THEN LowerChars[CHOOSE i \in 1..26 : UpperChars[i] = c]
        ELSE c]

toLowerCase(s) ==
    [i \in 1..Len(s) |-> LowerMap[s[i]]]

IsSpace(c) ==
    c \in SpaceChars

\* the class [a-z0-9]
IsAlnum(c) ==
    c \in Range(LowerChars) \cup Range(DigitChars)

Min(a, b) ==
    IF a < b THEN a ELSE b

\* String.prototype.slice(0, n) and Array.prototype.slice(0, n)
slice0(s, n) ==
    SubSeq(s, 1, Min(n, Len(s)))

\* String.prototype.trim
RECURSIVE trimStart(_)
trimStart(s) ==
    IF s # <<>> /\ IsSpace(Head(s)) THEN trimStart(Tail(s)) ELSE s

RECURSIVE trimEnd(_)
trimEnd(s) ==
    IF s # <<>> /\ IsSpace(s[Len(s)]) THEN trimEnd(SubSeq(s, 1, Len(s) - 1)) ELSE s

trim(s) ==
    trimEnd(trimStart(s))

\* String.prototype.split(/\s+/): every run of white space separates two
\* pieces; a leading or trailing run leaves an empty piece.
RECURSIVE splitFrom(_, _, _, _)
splitFrom(s, i, cur, acc) ==
    IF i > Len(s) THEN Append(acc, cur)
    ELSE IF IsSpace(s[i])
         THEN IF i > 1 /\ IsSpace(s[i - 1])
              THEN splitFrom(s, i + 1, cur, acc)
              ELSE splitFrom(s, i + 1, <<>>, Append(acc, cur))
         ELSE splitFrom(s, i + 1, Append(cur, s[i]), acc)

splitWs(s) ==
    splitFrom(s, 1, <<>>, <<>>)

\* String.prototype.includes
includes(hay, t) ==
    \E i \in 0..(Len(hay) - Len(t)) :
        \A j \in 1..Len(t) : hay[i + j] = t[j]

\* Array.prototype.join(sep) on an array of strings
RECURSIVE join(_, _)
join(parts, sep) ==
    IF parts = <<>> THEN <<>>
    ELSE IF Len(parts) = 1 THEN parts[1]
    ELSE parts[1] \o sep \o join(Tail(parts), sep)

\* Array.from(new Set(xs)): first occurrences, in insertion order
RECURSIVE uniq(_, _)
uniq(xs, acc) ==
    IF xs = <<>> THEN acc
    ELSE IF \E i \in 1..Len(acc) : acc[i] = Head(xs)
         THEN uniq(Tail(xs), acc)
         ELSE uniq(Tail(xs), Append(acc, Head(xs)))

arrayFromSet(xs) ==
    uniq(xs, <<>>)

\* Array.prototype.filter
RECURSIVE filterLen3(_)
filterLen3(ts) ==
    IF ts = <<>> THEN <<>>
    ELSE IF Len(Head(ts)) >= 3
         THEN <<Head(ts)>> \o filterLen3(Tail(ts))
         ELSE filterLen3(Tail(ts))

-----------------------------------------------------------------------------
(* Tokenizer, scorer and gate of the chat CLI.                             *)

MIN_OVERLAP_RATIO ==
    <<45, 100>>      \* 0.45 as numerator and denominator

MIN_MATCHED_TOKENS == 1

TOP_SOURCES_FOR_SCORING == 3

SCORING_CHAR_CAP == 1600

MIN_CHUNKS == 2

CITATION_CAP == 5

DEFAULT_TOP_K == 8

NO_EVIDENCE_MESSAGE ==
    "I could not find sufficient evidence in the provided documents (PDF/TXT) to answer your question."

\* tokenize without the replacement of the other characters by spaces
tokenize_NoReplace(text) ==
    LET lower == toLowerCase(text)
        pieces == splitWs(lower)
        trimmed == [i \in 1..Len(pieces) |-> trim(pieces[i])]
    IN  filterLen3(trimmed)

tokenize(text) ==
    LET lower == toLowerCase(text)
        replaced == [i \in 1..Len(lower) |->
                        IF IsAlnum(lower[i]) \/ IsSpace(lower[i])
                        THEN lower[i] ELSE " "]
        pieces == splitWs(replaced)
        trimmed == [i \in 1..Len(pieces) |-> trim(pieces[i])]
    IN  filterLen3(trimmed)

\* haystack without the cap on the number of chunks
haystack_AllChunks(docs) ==
    LET parts == [i \in 1..Len(docs) |-> slice0(docs[i].pageContent, SCORING_CHAR_CAP)]
    IN  toLowerCase(join(parts, <<" ">>))

\* the haystack of evidenceScore
haystack(docs) ==
    LET top == slice0(docs, TOP_SOURCES_FOR_SCORING)
        parts == [i \in 1..Len(top) |-> slice0(top[i].pageContent, SCORING_CHAR_CAP)]
    IN  toLowerCase(join(parts, <<" ">>))

RECURSIVE countMatches(_, _)
countMatches(tokens, hay) ==
    IF tokens = <<>> THEN 0
    ELSE (IF includes(hay, Head(tokens)) THEN 1 ELSE 0)
            + countMatches(Tail(tokens), hay)

\* evidenceScore without the early return for a question without tokens
evidenceScore_NoEmptyCheck(q, docs) ==
    LET qTokens == arrayFromSet(tokenize(q))
        totalTokens == Len(qTokens)
        matchedTokens == countMatches(qTokens, haystack(docs))
    IN  [matchedTokens |-> matchedTokens,
         totalTokens |-> totalTokens,
         overlapRatio |-> <<matchedTokens, totalTokens>>]

\* overlapRatio is kept as the fraction <<numerator, denominator>>
evidenceScore(q, docs) ==
    LET qTokens == arrayFromSet(tokenize(q))
        totalTokens == Len(qTokens)
    IN  IF totalTokens = 0
        THEN [matchedTokens |-> 0, totalTokens |-> 0, overlapRatio |-> <<0, 1>>]
        ELSE LET matchedTokens == countMatches(qTokens, haystack(docs))
             IN  [matchedTokens |-> matchedTokens,
                  totalTokens |-> totalTokens,
                  overlapRatio |-> <<matchedTokens, totalTokens>>]

\* a / b < c / d for positive denominators
RatioLess(r, s) ==
    r[1] * s[2] < s[1] * r[2]

\* hasEnoughEvidence without the floor on the number of chunks
hasEnoughEvidence_NoChunkFloor(q, docs) ==
    LET s == evidenceScore(q, docs)
    IN  IF s.matchedTokens < MIN_MATCHED_TOKENS THEN FALSE
        ELSE IF RatioLess(s.overlapRatio, MIN_OVERLAP_RATIO) THEN FALSE
        ELSE TRUE

hasEnoughEvidence(q, docs) ==
    IF Len(docs) < MIN_CHUNKS THEN FALSE
    ELSE LET s == evidenceScore(q, docs)
         IN  IF s.matchedTokens < MIN_MATCHED_TOKENS THEN FALSE
             ELSE IF RatioLess(s.overlapRatio, MIN_OVERLAP_RATIO) THEN FALSE
             ELSE TRUE

-----------------------------------------------------------------------------
(* JavaScript values, as far as metadata handling tells them apart.        *)

Undefined == [t |-> "undefined"]
Null == [t |-> "null"]
Str(s) == [t |-> "string", s |-> s]
Num(n) == [t |-> "number", n |-> n, finite |-> TRUE]
NaN == [t |-> "number", n |-> 0, finite |-> FALSE]
Bool(b) == [t |-> "boolean", b |-> b]
Func == [t |-> "function"]
Sym == [t |-> "symbol"]
BigInt(n) == [t |-> "bigint", n |-> n]
\* objects: a plain object with its own enumerable properties, an array
\* with its items, an object that contains itself, an Error instance
Obj(props) == [t |-> "object", class |-> "Object", props |-> props, cyclic |-> FALSE]
Arr(items) == [t |-> "object", class |-> "Array", items |-> items, cyclic |-> FALSE]
CyclicObj == [t |-> "object", class |-> "Object", props |-> <<>>, cyclic |-> TRUE]
Err(stack, message) == [t |-> "object", class |-> "Error", stack |-> stack, message |-> message]

\* A mapping (Record<string, unknown>) is the sequence of its
\* <<key, value>> entries in Object.entries order, keys distinct.
lookup(m, key) ==
    IF \E i \in 1..Len(m) : m[i][1] = key
    THEN m[CHOOSE i \in 1..Len(m) : m[i][1] = key][2]
    ELSE Undefined

-----------------------------------------------------------------------------
(* Citations and context of the chat CLI.                                  *)

\* getString returns a string or null; null is the value Null
getString(m, key) ==
    LET v == lookup(m, key)
    IN  IF v.t = "string" THEN v ELSE Null

getNumber(m, key) ==
    LET v == lookup(m, key)
    IN  IF v.t = "number" /\ v.finite THEN v ELSE Null

\* formatCite with the page tested for truthiness instead of against null
formatCite_TruthyPage(m) ==
    LET f == getString(m, "filename")
        filename == IF f = Null THEN "unknown" ELSE f.s
        page == getNumber(m, "page")
    IN  IF page # Null /\ page.n # 0
        THEN "[" \o filename \o " p." \o ToString(page.n) \o "]"
        ELSE "[" \o filename \o "]"

formatCite(m) ==
    LET f == getString(m, "filename")
        filename == IF f = Null THEN "unknown" ELSE f.s
        page == getNumber(m, "page")
    IN  IF page # Null
        THEN "[" \o filename \o " p." \o ToString(page.n) \o "]"
        ELSE "[" \o filename \o "]"

extractCitations(docs) ==
    LET cites == [i \in 1..Len(docs) |-> formatCite(docs[i].metadata)]
    IN  arrayFromSet(cites)

\* the context is kept as the sequence of its blocks, which the code joins
\* with blank lines: block i is the header line and the chunk's content
buildContext(docs) ==
    [i \in 1..Len(docs) |->
        [header |-> "Source " \o ToString(i) \o " " \o formatCite(docs[i].metadata),
         body |-> docs[i].pageContent]]

\* shownCitations with the slice taken before the labels are de-duplicated
shownCitations_SliceFirst(docs) ==
    extractCitations(slice0(docs, CITATION_CAP))

\* extractCitations(retrieved).slice(0, 5)
shownCitations(docs) ==
    slice0(extractCitations(docs), CITATION_CAP)

-----------------------------------------------------------------------------
(* Number(kInput.trim()) and the choice of k.                              *)

DigitValue(c) ==
    (CHOOSE i \in 1..10 : DigitChars[i] = c) - 1

IsDigit(c) ==
    c \in Range(DigitChars)

RECURSIVE digitsValue(_, _)
digitsValue(s, acc) ==
    IF s = <<>> THEN acc
    ELSE digitsValue(Tail(s), acc * 10 + DigitValue(Head(s)))

\* Number(s) for the decimal literals "", "12", "1.5", ".5", "-3": the
\* result is NaN or has a sign, an integer part (its floor when it is not
\* negative) and a flag telling whether its fraction is non-zero.
Number(s) ==
    LET neg == s # <<>> /\ Head(s) = "-"
        body == IF neg THEN Tail(s) ELSE s
        dots == {i \in 1..Len(body) : body[i] = "."}
        dot == IF dots = {} THEN Len(body) + 1 ELSE CHOOSE i \in dots : TRUE
        ip == SubSeq(body, 1, dot - 1)
        fp == SubSeq(body, dot + 1, Len(body))
        wellFormed == /\ Cardinality(dots) <= 1
                      /\ \A i \in 1..Len(ip) : IsDigit(ip[i])
                      /\ \A i \in 1..Len(fp) : IsDigit(fp[i])
                      /\ Len(ip) + Len(fp) > 0
    IN  IF s = <<>> THEN [nan |-> FALSE, neg |-> FALSE, int |-> 0, frac |-> FALSE]
        ELSE IF ~wellFormed THEN [nan |-> TRUE, neg |-> FALSE, int |-> 0, frac |-> FALSE]
        ELSE [nan |-> FALSE, neg |-> neg, int |-> digitsValue(ip, 0),
              frac |-> digitsValue(fp, 0) > 0]

\* Number.isFinite(kParsed) && kParsed > 0 ? Math.floor(kParsed) : 8
chooseK(kInput) ==
    LET kParsed == Number(trim(kInput))
    IN  IF ~kParsed.nan /\ ~kParsed.neg /\ (kParsed.int > 0 \/ kParsed.frac)
        THEN kParsed.int
        ELSE DEFAULT_TOP_K

-----------------------------------------------------------------------------
(* Inputs: what the user types and what the vector store holds.            *)

qBoiling ==
    <<"W", "h", "a", "t", " ", "i", "s", " ", "t", "h", "e", " ", "b", "o", "i", "l", "i", "n", "g", " ", "p", "o", "i", "n", "t", " ", "o", "f", " ", "w", "a", "t", "e", "r">>

qSwallow ==
    <<"W", "h", "a", "t", " ", "i", "s", " ", "t", "h", "e", " ", "a", "i", "r", "s", "p", "e", "e", "d", " ", "o", "f", " ", "a", " ", "s", "w", "a", "l", "l", "o", "w", "?">>

qShort ==
    <<"a", " ", "b", "b", ",", " ", "c", "!">>

qRepeat ==
    <<" ", "W", "a", "t", "e", "r", " ", "w", "a", "t", "e", "r", " ", "W", "A", "T", "E", "R">>

qBlank ==
    <<" ", " ">>

txtBoils ==
    <<"w", "a", "t", "e", "r", " ", "b", "o", "i", "l", "s", " ", "a", "t", " ", "1", "0", "0", " ", "d", "e", "g", "r", "e", "e", "s", " ", "c", "e", "l", "s", "i", "u", "s", " ", "b", "o", "i", "l", "i", "n", "g", " ", "p", "o", "i", "n", "t">>

txtHot ==
    <<"T", "h", "e", " ", "W", "a", "t", "e", "r", " ", "i", "s", " ", "H", "O", "T">>

txtSalt ==
    <<"R", "e", "c", "i", "p", "e", "s", ":", " ", "a", "d", "d", " ", "s", "a", "l", "t">>

txtHead ==
    <<"h", "o", "t", " ", "w", "a", "t">>

txtTail ==
    <<"e", "r", " ", "i", "s", " ", "c", "o", "l", "d">>

tailPoint ==
    <<"b", "o", "i", "l", "i", "n", "g", " ", "p", "o", "i", "n", "t">>

\* what the user may type at the question prompt
QuestionInputs ==
    {<<>>, qBlank, qBoiling, qSwallow, qShort, qRepeat}

\* what the user may type at the TopK prompt
KInputs ==
    {<<>>, <<" ", "2">>, <<"0", ".", "5">>, <<"a", "b", "c">>}

\* metadata as ingestion stores it, and as other writers may have left it
metaPdf ==
    <<<<"filename", Str("a.pdf")>>, <<"source", Str("data/a.pdf")>>, <<"page", Num(3)>>>>

metaTxt ==
    <<<<"filename", Str("b.txt")>>, <<"source", Str("data/b.txt")>>, <<"page", Null>>>>

metaNone ==
    <<>>

Doc(content, m) ==
    [pageContent |-> content, metadata |-> m]

\* the chunks the vector store can return in the chat loop
Corpus ==
    {Doc(txtBoils, metaPdf), Doc(txtHot, metaTxt), Doc(txtSalt, metaNone)}

\* all sequences over S of length at most n
SeqsUpTo(S, n) ==
    UNION {[1..m -> S] : m \in 0..n}

\* what the model may answer
Answers ==
    {<<"1", "0", "0", " ", "C", " ">>, <<>>}

-----------------------------------------------------------------------------
(* The chat loop: main() of the chat CLI, one action per resumption.       *)

Line(kind) == [kind |-> kind]

ZeroScore ==
    [matchedTokens |-> 0, totalTokens |-> 0, overlapRatio |-> <<0, 1>>]

SanIdle ==
    /\ meta = <<>>
    /\ prevMeta = <<>>
    /\ sanCalls = 0

\* the ingestion run before it starts: what loader.load() returned, what
\* loadDocuments returned, the arguments of splitDocuments and addDocuments
\* (with whether each was called), the chunks, what the store has written
NoIngest ==
    [loaded |-> <<>>, rawDocs |-> <<>>, splitCalled |-> FALSE, splitArg |-> <<>>,
     chunks |-> <<>>, addCalled |-> FALSE, addArg |-> <<>>, stored |-> <<>>]

AuxIdle ==
    /\ arg = <<>>
    /\ result = <<>>
    /\ ingest = NoIngest

Init ==
    /\ pc = "question"
    /\ question = <<>>
    /\ k = 0
    /\ retrieved = <<>>
    /\ score = ZeroScore
    /\ enough = FALSE
    /\ citations = <<>>
    /\ context = <<>>
    /\ calls = <<>>
    /\ printed = <<>>
    /\ errout = <<>>
    /\ rlOpen = TRUE
    /\ exitCode = -1
    /\ thrown = "none"
    /\ SanIdle
    /\ AuxIdle

\* rl.question('Question (empty to exit): ') resolves with q: a new loop
\* iteration starts; an empty question leaves the loop, the finally block
\* closes readline and main() returns.
AskQuestion ==
    /\ pc = "question"
    /\ \E q \in QuestionInputs :
        /\ question' = trim(q)
        /\ IF trim(q) = <<>>
           THEN /\ pc' = "returned"
                /\ rlOpen' = FALSE
                /\ exitCode' = 0
           ELSE /\ pc' = "topk"
                /\ UNCHANGED <<rlOpen, exitCode>>
    /\ k' = 0
    /\ retrieved' = <<>>
    /\ score' = ZeroScore
    /\ enough' = FALSE
    /\ citations' = <<>>
    /\ context' = <<>>
    /\ calls' = <<>>
    /\ printed' = <<>>
    /\ UNCHANGED <<errout, thrown, sanVars, auxVars>>

\* AskTopK with the search promise left floating: the loop goes on to the
\* next prompt while the call is in flight
AskTopK_NoAwait ==
    /\ pc = "topk"
    /\ \E kInput \in KInputs :
        /\ k' = chooseK(kInput)
        /\ calls' = Append(calls, [fn |-> "similaritySearch", query |-> question,
                                   k |-> chooseK(kInput), status |-> "pending"])
    /\ printed' = Append(printed, Line("Retrieving sources..."))
    /\ pc' = "question"
    /\ UNCHANGED <<question, retrieved, score, enough, citations, context,
                   errout, rlOpen, exitCode, thrown, sanVars, auxVars>>

\* rl.question('TopK (default 8): ') resolves: k is chosen and
\* store.similaritySearch(question, k) is called.
AskTopK ==
    /\ pc = "topk"
    /\ \E kInput \in KInputs :
        /\ k' = chooseK(kInput)
        /\ calls' = Append(calls, [fn |-> "similaritySearch", query |-> question,
                                   k |-> chooseK(kInput), status |-> "pending"])
    /\ printed' = Append(printed, Line("Retrieving sources..."))
    /\ pc' = "search"
    /\ UNCHANGED <<question, retrieved, score, enough, citations, context,
                   errout, rlOpen, exitCode, thrown, sanVars, auxVars>>

SetStatus(cs, st) ==
    [cs EXCEPT ![Len(cs)] = [@ EXCEPT !.status = st]]

\* similaritySearch resolves with at most k chunks: the count and the
\* evidence score are logged.
SearchReturns ==
    /\ pc = "search"
    /\ \E r \in SeqsUpTo(Corpus, Min(k, MaxRetrieved)) :
        /\ retrieved' = r
        /\ score' = evidenceScore(question, r)
        /\ printed' = printed \o <<[kind |-> "Retrieved chunks", n |-> Len(r)],
                                   [kind |-> "Evidence score",
                                    score |-> evidenceScore(question, r)]>>
    /\ calls' = SetStatus(calls, "ok")
    /\ pc' = "gate"
    /\ UNCHANGED <<question, k, enough, citations, context,
                   errout, rlOpen, exitCode, thrown, sanVars, auxVars>>

\* SearchFails with the rejection caught inside the loop and answered
\* with the refusal text
SearchFails_AsRefusal ==
    /\ pc = "search"
    /\ calls' = SetStatus(calls, "failed")
    /\ printed' = printed \o <<[kind |-> "refusal", text |-> NO_EVIDENCE_MESSAGE],
                               Line("")>>
    /\ pc' = "question"
    /\ UNCHANGED <<question, k, retrieved, score, enough, citations, context,
                   errout, rlOpen, exitCode, thrown, sanVars, auxVars>>

\* similaritySearch rejects: the exception leaves the loop, the finally
\* block closes readline and the promise of main() is rejected.
SearchFails ==
    /\ pc = "search"
    /\ calls' = SetStatus(calls, "failed")
    /\ \E e \in {"Error", "other"} : thrown' = e
    /\ rlOpen' = FALSE
    /\ pc' = "rejected"
    /\ UNCHANGED <<question, k, retrieved, score, enough, citations, context,
                   printed, errout, exitCode, sanVars, auxVars>>

\* GateRefuses without its `continue`: the refusal is printed and the
\* iteration goes on to the generation call
GateRefuses_FallsThrough ==
    /\ pc = "gate"
    /\ ~hasEnoughEvidence(question, retrieved)
    /\ enough' = FALSE
    /\ context' = buildContext(retrieved)
    /\ citations' = shownCitations(retrieved)
    /\ printed' = printed \o <<[kind |-> "refusal", text |-> NO_EVIDENCE_MESSAGE],
                               Line(""), Line("Generating answer...")>>
    /\ calls' = Append(calls, [fn |-> "invoke", question |-> question,
                               context |-> buildContext(retrieved),
                               status |-> "pending"])
    /\ pc' = "invoke"
    /\ UNCHANGED <<question, k, retrieved, score,
                   errout, rlOpen, exitCode, thrown, sanVars, auxVars>>

\* if (!hasEnoughEvidence(question, retrieved)) { refusal; continue; }
GateRefuses ==
    /\ pc = "gate"
    /\ ~hasEnoughEvidence(question, retrieved)
    /\ enough' = FALSE
    /\ printed' = printed \o <<[kind |-> "refusal", text |-> NO_EVIDENCE_MESSAGE],
                               Line("")>>
    /\ pc' = "question"
    /\ UNCHANGED <<question, k, retrieved, score, citations, context, calls,
                   errout, rlOpen, exitCode, thrown, sanVars, auxVars>>

\* GatePasses without the test of the gate
GatePasses_Ungated ==
    /\ pc = "gate"
    /\ enough' = TRUE
    /\ context' = buildContext(retrieved)
    /\ citations' = shownCitations(retrieved)
    /\ printed' = Append(printed, Line("Generating answer..."))
    /\ calls' = Append(calls, [fn |-> "invoke", question |-> question,
                               context |-> buildContext(retrieved),
                               status |-> "pending"])
    /\ pc' = "invoke"
    /\ UNCHANGED <<question, k, retrieved, score,
                   errout, rlOpen, exitCode, thrown, sanVars, auxVars>>

\* the gate passes: context and citations are built and llm.invoke is called
GatePasses ==
    /\ pc = "gate"
    /\ hasEnoughEvidence(question, retrieved)
    /\ enough' = TRUE
    /\ context' = buildContext(retrieved)
    /\ citations' = shownCitations(retrieved)
    /\ printed' = Append(printed, Line("Generating answer..."))
    /\ calls' = Append(calls, [fn |-> "invoke", question |-> question,
                               context |-> buildContext(retrieved),
                               status |-> "pending"])
    /\ pc' = "invoke"
    /\ UNCHANGED <<question, k, retrieved, score,
                   errout, rlOpen, exitCode, thrown, sanVars, auxVars>>

\* llm.invoke resolves: the answer, then the citations, are printed
InvokeReturns ==
    /\ pc = "invoke"
    /\ \E content \in Answers :
        printed' = printed
            \o <<[kind |-> "answer", chars |-> trim(content)], Line(""),
                 Line("[Citations]")>>
            \o [i \in 1..Len(citations) |->
                    [kind |-> "citation", text |-> "- " \o citations[i]]]
            \o <<Line("")>>
    /\ calls' = SetStatus(calls, "ok")
    /\ pc' = "question"
    /\ UNCHANGED <<question, k, retrieved, score, enough, citations, context,
                   errout, rlOpen, exitCode, thrown, sanVars, auxVars>>

\* llm.invoke rejects: as for a rejected search
InvokeFails ==
    /\ pc = "invoke"
    /\ calls' = SetStatus(calls, "failed")
    /\ \E e \in {"Error", "other"} : thrown' = e
    /\ rlOpen' = FALSE
    /\ pc' = "rejected"
    /\ UNCHANGED <<question, k, retrieved, score, enough, citations, context,
                   printed, errout, exitCode, sanVars, auxVars>>

\* MainCatch without process.exit(1)
MainCatch_NoExit ==
    /\ pc = "rejected"
    /\ errout' = IF thrown = "Error"
                 THEN errout \o <<Line("err.message"), Line("err.stack")>>
                 ELSE Append(errout, Line("err"))
    /\ pc' = "exited"
    /\ UNCHANGED <<question, k, retrieved, score, enough, citations, context,
                   calls, printed, rlOpen, exitCode, thrown, sanVars, auxVars>>

\* main().catch(...): the error is written to stderr and the process exits
\* with status 1.
MainCatch ==
    /\ pc = "rejected"
    /\ errout' = IF thrown = "Error"
                 THEN errout \o <<Line("err.message"), Line("err.stack")>>
                 ELSE Append(errout, Line("err"))
    /\ exitCode' = 1
    /\ pc' = "exited"
    /\ UNCHANGED <<question, k, retrieved, score, enough, citations, context,
                   calls, printed, rlOpen, thrown, sanVars, auxVars>>

Next ==
    \/ AskQuestion
    \/ AskTopK
    \/ SearchReturns
    \/ SearchFails
    \/ GateRefuses
    \/ GatePasses
    \/ InvokeReturns
    \/ InvokeFails
    \/ MainCatch

Spec == Init /\ [][Next]_vars

-----------------------------------------------------------------------------
(* The Chroma metadata sanitizer.                                          *)

isPrimitive(v) ==
    v.t \in {"null", "string", "number", "boolean"}

\* String(v) for a number or a boolean
String(v) ==
    IF v.t = "number" THEN (IF v.finite THEN ToString(v.n) ELSE "NaN")
    ELSE IF v.b THEN "true" ELSE "false"

\* JSON.stringify gives undefined for these, omits them as property values
\* and writes null for them as array items
jsonOmitted(v) ==
    v.t \in {"undefined", "function", "symbol"}

RECURSIVE joinText(_, _)
joinText(parts, sep) ==
    IF parts = <<>> THEN ""
    ELSE IF Len(parts) = 1 THEN parts[1]
    ELSE parts[1] \o sep \o joinText(Tail(parts), sep)

\* the properties JSON.stringify writes
RECURSIVE jsonShown(_)
jsonShown(props) ==
    IF props = <<>> THEN <<>>
    ELSE IF jsonOmitted(Head(props)[2]) THEN jsonShown(Tail(props))
    ELSE <<Head(props)>> \o jsonShown(Tail(props))

\* JSON.stringify throws a TypeError on a BigInt and on a cyclic structure
RECURSIVE jsonThrows(_)
jsonThrows(v) ==
    \/ v.t = "bigint"
    \/ /\ v.t = "object"
       /\ v.class # "Error"
       /\ \/ v.cyclic
          \/ v.class = "Object" /\ \E i \in 1..Len(v.props) : jsonThrows(v.props[i][2])
          \/ v.class = "Array" /\ \E i \in 1..Len(v.items) : jsonThrows(v.items[i])

\* the text JSON.stringify writes for a value it neither omits nor throws on
RECURSIVE jsonText(_)
jsonText(v) ==
    CASE v.t = "string" -> "\"" \o v.s \o "\""
      [] v.t = "number" -> IF v.finite THEN ToString(v.n) ELSE "null"
      [] v.t = "boolean" -> String(v)
      [] v.t = "null" -> "null"
      [] v.t = "object" /\ v.class = "Error" -> "{}"
      [] v.t = "object" /\ v.class = "Array" ->
            "[" \o joinText([i \in 1..Len(v.items) |->
                                IF jsonOmitted(v.items[i]) THEN "null"
                                ELSE jsonText(v.items[i])], ",") \o "]"
      [] v.t = "object" /\ v.class = "Object" ->
            LET shown == jsonShown(v.props)
            IN  "{" \o joinText([i \in 1..Len(shown) |->
                                    "\"" \o shown[i][1] \o "\":" \o jsonText(shown[i][2])],
                                ",") \o "}"

\* Object.prototype.toString.call(v)
objectToString(v) ==
    IF v.t = "bigint" THEN "[object BigInt]"
    ELSE "[object " \o v.class \o "]"

\* The result is a JavaScript value: what the function returns at run time.
safeToString(v) ==
    IF v.t = "string" THEN v
    ELSE IF v.t \in {"number", "boolean"} THEN Str(String(v))
    ELSE IF v.t = "object" /\ v.class = "Error"
         THEN (IF v.stack \in {Undefined, Null} THEN v.message ELSE v.stack)
    ELSE IF jsonThrows(v) THEN Str(objectToString(v))
    ELSE IF jsonOmitted(v) THEN Undefined
    ELSE Str(jsonText(v))

\* `out` after the loop over Object.entries(input)
RECURSIVE sanitizeForChromaMetadata(_)
sanitizeForChromaMetadata(input) ==
    IF input = <<>> THEN <<>>
    ELSE LET key == Head(input)[1]
             value == Head(input)[2]
             rest == sanitizeForChromaMetadata(Tail(input))
         IN  IF value = Undefined THEN rest
             ELSE IF isPrimitive(value) THEN <<<<key, value>>>> \o rest
             ELSE <<<<key, safeToString(value)>>>> \o rest

\* values a loader, or any other caller, may put into a metadata mapping
MetaValues ==
    {Undefined, Null, Str("a.pdf"), Str(""), Num(3), NaN, Bool(TRUE),
     Func, Sym, BigInt(1),
     Obj(<<<<"pageNumber", Num(3)>>, <<"lines", Undefined>>>>),
     Arr(<<Num(1), Undefined, Str("x")>>),
     Obj(<<<<"big", BigInt(1)>>>>),
     CyclicObj,
     Err(Str("Error: boom at load"), Str("boom")),
     Err(Undefined, Str("boom"))}

MetaKeys ==
    <<"loc", "source", "pdf", "extra">>

\* the mappings with at most MaxMetaKeys keys
MetaInputs ==
    {[i \in 1..Len(vs) |-> <<MetaKeys[i], vs[i]>>] :
        vs \in SeqsUpTo(MetaValues, Min(MaxMetaKeys, Len(MetaKeys)))}

ChatIdle ==
    /\ question = <<>>
    /\ k = 0
    /\ retrieved = <<>>
    /\ score = ZeroScore
    /\ enough = FALSE
    /\ citations = <<>>
    /\ context = <<>>
    /\ calls = <<>>
    /\ printed = <<>>
    /\ errout = <<>>
    /\ rlOpen = TRUE
    /\ exitCode = -1
    /\ thrown = "none"

InitSanitize ==
    /\ pc = "sanitize"
    /\ ChatIdle
    /\ AuxIdle
    /\ meta \in MetaInputs
    /\ prevMeta = meta
    /\ sanCalls = 0

\* meta = sanitizeForChromaMetadata(meta), at most twice in a row
Sanitize ==
    /\ pc = "sanitize"
    /\ sanCalls < 2
    /\ prevMeta' = meta
    /\ meta' = sanitizeForChromaMetadata(meta)
    /\ sanCalls' = sanCalls + 1
    /\ UNCHANGED <<chatVars, auxVars>>

NextSanitize ==
    Sanitize

SpecSanitize == InitSanitize /\ [][NextSanitize]_vars

-----------------------------------------------------------------------------
(* The scorer and the gate on their own: evidenceScore, then               *)
(* hasEnoughEvidence, applied to a question and a chunk list.              *)

Filler(n) ==
    [i \in 1..n |-> "x"]

\* a chunk longer than the scoring cap: "the" and "water" lie within the
\* first 1600 characters, "boiling" straddles character 1600 and "point"
\* lies past it
txtLong ==
    <<"T", "h", "e", " ", "W", "a", "t", "e", "r", " ">>
        \o Filler(SCORING_CHAR_CAP - 14) \o tailPoint

ScoreCorpus ==
    {Doc(txtBoils, metaNone), Doc(txtLong, metaNone),
     Doc(txtHead, metaNone), Doc(txtTail, metaNone)}

ScoreQuestions ==
    {<<>>, qBoiling, qSwallow, qShort, qRepeat}

InitScore ==
    /\ pc = "evidenceScore"
    /\ question \in ScoreQuestions
    /\ retrieved \in SeqsUpTo(ScoreCorpus, MaxScoreDocs)
    /\ k = 0
    /\ score = ZeroScore
    /\ enough = FALSE
    /\ citations = <<>>
    /\ context = <<>>
    /\ calls = <<>>
    /\ printed = <<>>
    /\ errout = <<>>
    /\ rlOpen = TRUE
    /\ exitCode = -1
    /\ thrown = "none"
    /\ SanIdle
    /\ AuxIdle

EvalScore ==
    /\ pc = "evidenceScore"
    /\ score' = evidenceScore(question, retrieved)
    /\ pc' = "hasEnoughEvidence"
    /\ UNCHANGED <<question, k, retrieved, enough, citations, context, calls,
                   printed, errout, rlOpen, exitCode, thrown, sanVars, auxVars>>

EvalGate ==
    /\ pc = "hasEnoughEvidence"
    /\ enough' = hasEnoughEvidence(question, retrieved)
    /\ pc' = "done"
    /\ UNCHANGED <<question, k, retrieved, score, citations, context, calls,
                   printed, errout, rlOpen, exitCode, thrown, sanVars, auxVars>>

NextScore ==
    \/ EvalScore
    \/ EvalGate

SpecScore == InitScore /\ [][NextScore]_vars

-----------------------------------------------------------------------------
(* The citation list on its own: extractCitations(docs).slice(0, 5).       *)

metaOf(filename, page) ==
    <<<<"filename", filename>>, <<"source", Str("")>>, <<"page", page>>>>

\* six chunks with six different labels
CiteCorpus ==
    {Doc(<<>>, metaOf(Str("a.pdf"), Num(3))),
     Doc(<<>>, metaOf(Str("a.pdf"), Num(4))),
     Doc(<<>>, metaOf(Str("a.pdf"), Null)),
     Doc(<<>>, metaOf(Str("b.txt"), Null)),
     Doc(<<>>, metaOf(Str("c.md"), Null)),
     Doc(<<>>, metaNone)}

\* further chunks: two with other metadata and labels of the above, two of the above
CiteTwins ==
    {Doc(<<>>, metaOf(Str("a.pdf p.3"), Null)),
     Doc(<<>>, metaOf(Num(7), NaN)),
     Doc(<<>>, metaOf(Str("a.pdf"), Num(3))),
     Doc(<<>>, metaNone)}

\* every ordering of the six chunks, with the first chunk once more in
\* third place: seven chunks, six labels
CiteRepeats ==
    {<<s[1], s[2], s[1]>> \o SubSeq(s, 3, 6) :
        s \in {f \in [1..6 -> CiteCorpus] : \A i, j \in 1..6 : f[i] = f[j] => i = j}}

CiteInputs ==
    SeqsUpTo(CiteCorpus, MaxCiteDocs) \cup SeqsUpTo(CiteTwins, MaxRetrieved)
        \cup CiteRepeats

InitCite ==
    /\ pc = "extractCitations"
    /\ retrieved \in CiteInputs
    /\ question = <<>>
    /\ k = 0
    /\ score = ZeroScore
    /\ enough = FALSE
    /\ citations = <<>>
    /\ context = <<>>
    /\ calls = <<>>
    /\ printed = <<>>
    /\ errout = <<>>
    /\ rlOpen = TRUE
    /\ exitCode = -1
    /\ thrown = "none"
    /\ SanIdle
    /\ AuxIdle

EvalCitations ==
    /\ pc = "extractCitations"
    /\ citations' = shownCitations(retrieved)
    /\ pc' = "done"
    /\ UNCHANGED <<question, k, retrieved, score, enough, context, calls,
                   printed, errout, rlOpen, exitCode, thrown, sanVars, auxVars>>

NextCite ==
    EvalCitations

SpecCite == InitCite /\ [][NextCite]_vars

-----------------------------------------------------------------------------
(* Properties of the chat loop, checked under Spec.                        *)

HasLine(kind) ==
    \E i \in 1..Len(printed) : printed[i].kind = kind

LinePos(kind) ==
    CHOOSE i \in 1..Len(printed) : printed[i].kind = kind

HasCall(fn) ==
    \E i \in 1..Len(calls) : calls[i].fn = fn

CallFailed ==
    \E i \in 1..Len(calls) : calls[i].status = "failed"

\* retrieval for the current question has returned its chunks
SearchOk ==
    /\ Len(calls) >= 1
    /\ calls[1].fn = "similaritySearch"
    /\ calls[1].status = "ok"
    /\ calls[1].query = question

\* C1: llm.invoke is called for a question only after similaritySearch for
\* that same question returned and hasEnoughEvidence holds of the question
\* and the returned chunks; when the gate is false there is no such call.
C1_NoGenerationWithoutEvidence ==
    /\ \A i \in 1..Len(calls) :
          calls[i].fn = "invoke" =>
              /\ i = 2
              /\ SearchOk
              /\ calls[i].question = question
              /\ hasEnoughEvidence(question, retrieved)
    /\ (SearchOk /\ pc # "gate" /\ ~hasEnoughEvidence(question, retrieved))
          => ~HasCall("invoke")

C1_Witness ==
    /\ pc = "question"
    /\ SearchOk
    /\ Len(retrieved) >= 2
    /\ score.matchedTokens >= 1
    /\ ~hasEnoughEvidence(question, retrieved)
    /\ ~HasCall("invoke")

\* C3: the refusal text is printed for a question exactly when its
\* retrieval returned and the gate was false; then no citation is printed
\* or built, and a failed external call never leaves the refusal text.
C3_RefusalOnlyFromGate ==
    /\ HasLine("refusal")
          <=> (SearchOk /\ pc # "gate" /\ ~hasEnoughEvidence(question, retrieved))
    /\ HasLine("refusal")
          => /\ ~HasLine("citation")
             /\ ~HasLine("[Citations]")
             /\ citations = <<>>
             /\ printed[LinePos("refusal")].text = NO_EVIDENCE_MESSAGE
    /\ CallFailed => ~HasLine("refusal")

C3_Witness ==
    /\ HasLine("refusal")
    /\ ~HasLine("citation")
    /\ score.matchedTokens = 0
    /\ Len(retrieved) >= 2

\* C4 as stated: once the failure of an external call is reported, the
\* session is back at the question prompt, in the same process.
C4_LoopSurvivesFailure ==
    errout # <<>> => (pc = "question" /\ rlOpen /\ exitCode = -1)

\* C4 as amended: a failed external call closes readline and rejects
\* main(); the failure is then reported on stderr and the process exits
\* with status 1; no question is prompted for after the failure.
C4_FailureEndsProcess ==
    /\ [](/\ CallFailed <=> pc \in {"rejected", "exited"}
          /\ CallFailed => (~rlOpen /\ thrown # "none")
          /\ pc = "rejected" => (errout = <<>> /\ exitCode = -1)
          /\ pc = "exited" => (errout # <<>> /\ exitCode = 1)
          /\ errout # <<>> => pc = "exited")
    /\ [][pc = "rejected" => pc' = "exited"]_vars
    /\ [][pc # "exited"]_vars

C4_Witness ==
    /\ pc = "exited"
    /\ exitCode = 1
    /\ errout # <<>>
    /\ HasCall("invoke")
    /\ CallFailed

\* C5: a question goes from the prompt to retrieval, to the gate, and then
\* either to the refusal or through the generation call to the answer; the
\* gate runs only on returned chunks, context and citations exist only
\* after the gate passed, the answer and the citation lines are printed only
\* after the generation call returned, a question ends in at most one of
\* refusal, answer and failure, after a refusal or an answer the loop is at
\* the question prompt, and an empty question ends the session.
C5_Order ==
    /\ pc \in {"gate", "invoke"} => SearchOk
    /\ HasLine("Retrieved chunks") => SearchOk
    /\ (context # <<>> \/ citations # <<>> \/ HasLine("Generating answer..."))
          => (enough /\ hasEnoughEvidence(question, retrieved) /\ HasCall("invoke"))
    /\ HasLine("refusal")
          => (HasLine("Retrieved chunks") /\ LinePos("Retrieved chunks") < LinePos("refusal"))
    /\ HasLine("answer")
          => /\ Len(calls) = 2 /\ calls[2].fn = "invoke" /\ calls[2].status = "ok"
             /\ LinePos("Generating answer...") < LinePos("answer")
             /\ \A i \in 1..Len(printed) :
                   printed[i].kind \in {"[Citations]", "citation"} => LinePos("answer") < i
    /\ (HasLine("citation") \/ HasLine("[Citations]")) => HasLine("answer")
    /\ ~(HasLine("refusal") /\ HasLine("answer"))
    /\ ~(HasLine("refusal") /\ CallFailed)
    /\ ~(HasLine("answer") /\ CallFailed)
    /\ (HasLine("refusal") \/ HasLine("answer")) => (pc = "question" /\ rlOpen)
    /\ pc = "returned" <=> (question = <<>> /\ ~rlOpen /\ exitCode = 0)
    /\ pc \in {"topk", "search", "gate", "invoke"}
          => (question # <<>> /\ question = trim(question))

C5_Steps ==
    \/ pc = "question" /\ pc' \in {"topk", "returned"}
    \/ pc = "topk" /\ pc' = "search"
    \/ pc = "search" /\ pc' \in {"gate", "rejected"}
    \/ pc = "gate" /\ pc' \in {"question", "invoke"}
    \/ pc = "invoke" /\ pc' \in {"question", "rejected"}
    \/ pc = "rejected" /\ pc' = "exited"

C5_QueryStateMachine ==
    []C5_Order /\ [][C5_Steps]_vars

C5_Witness ==
    /\ pc = "question"
    /\ HasLine("answer")
    /\ HasLine("citation")
    /\ Len(citations) >= 2

-----------------------------------------------------------------------------
(* Properties of the scorer and the gate, checked under SpecScore.         *)

Scored ==
    pc \in {"hasEnoughEvidence", "done"}

\* C2: hasEnoughEvidence is false exactly when fewer than 2 chunks were
\* retrieved, or matchedTokens < 1, or overlapRatio < 0.45; so it is false
\* below 2 chunks even when every token matches, true for 3 of 5 tokens with
\* 2 chunks or more, and false for 2 of 5 tokens.
C2_GateDecision ==
    pc = "done" =>
        /\ ~enough <=> \/ Len(retrieved) < 2
                       \/ score.matchedTokens < 1
                       \/ score.overlapRatio[1] * 100 < 45 * score.overlapRatio[2]
        /\ Len(retrieved) < 2 => ~enough
        /\ (score.totalTokens = 5 /\ score.matchedTokens = 3 /\ Len(retrieved) >= 2)
              => enough
        /\ (score.totalTokens = 5 /\ score.matchedTokens = 2) => ~enough

C2_Witness ==
    /\ pc = "done"
    /\ Len(retrieved) = 1
    /\ score.totalTokens >= 1
    /\ score.matchedTokens = score.totalTokens
    /\ ~enough

\* no three consecutive characters of q are letters or digits
AllShort(q) ==
    ~\E i \in 1..(Len(q) - 2) :
        \A j \in 0..2 : IsAlnum(LowerMap[q[i + j]])

\* C8: for a question that is empty or has no token of 3 characters or
\* more, evidenceScore returns {0, 0, 0} and hasEnoughEvidence returns
\* false, whatever the chunks.
C8_EmptyQuestionRefused ==
    AllShort(question) =>
        /\ Scored => score = [matchedTokens |-> 0, totalTokens |-> 0,
                              overlapRatio |-> <<0, 1>>]
        /\ pc = "done" => ~enough

C8_Witness ==
    /\ pc = "done"
    /\ question # <<>>
    /\ AllShort(question)
    /\ Len(retrieved) >= 2
    /\ score.totalTokens = 0
    /\ ~enough

\* the chunks the claim lets count: the first 3, each cut to 1600 characters
Capped(docs) ==
    [i \in 1..Min(3, Len(docs)) |->
        [docs[i] EXCEPT !.pageContent = SubSeq(@, 1, Min(1600, Len(@)))]]

UniqueTokens(q) ==
    Range(tokenize(q))

\* the unique tokens of q found in one of the counted chunks
FoundTokens(q, docs) ==
    {t \in UniqueTokens(q) :
        \E i \in 1..Len(Capped(docs)) :
            includes(toLowerCase(Capped(docs)[i].pageContent), t)}

\* C9: totalTokens is the number of unique question tokens, matchedTokens
\* the number of them that occur in the lower-cased first 1600 characters
\* of one of the first 3 chunks, overlapRatio their quotient (0 without
\* tokens), within [0, 1]; what lies in later chunks or past character 1600
\* does not change the score.
C9_ScoreFromCappedChunks ==
    Scored =>
        /\ score.totalTokens = Cardinality(UniqueTokens(question))
        /\ score.matchedTokens = Cardinality(FoundTokens(question, retrieved))
        /\ 0 <= score.matchedTokens /\ score.matchedTokens <= score.totalTokens
        /\ score.overlapRatio =
              IF score.totalTokens = 0 THEN <<0, 1>>
              ELSE <<score.matchedTokens, score.totalTokens>>
        /\ 0 <= score.overlapRatio[1]
        /\ score.overlapRatio[1] <= score.overlapRatio[2]
        /\ score = evidenceScore(question, Capped(retrieved))

C9_Witness ==
    /\ Scored
    /\ Len(retrieved) = 4
    /\ \E i \in 1..3 : Len(retrieved[i].pageContent) > 1600
    /\ score.totalTokens = 5
    /\ score.matchedTokens = 2
    /\ \E t \in UniqueTokens(question) :
          /\ t \notin FoundTokens(question, retrieved)
          /\ includes(toLowerCase(retrieved[4].pageContent), t)
    /\ \E t \in UniqueTokens(question), i \in 1..3 :
          /\ t \notin FoundTokens(question, retrieved)
          /\ includes(toLowerCase(retrieved[i].pageContent), t)

-----------------------------------------------------------------------------
(* Properties of the sanitizer, checked under SpecSanitize.                *)

\* C6: the mapping the sanitizer returns has no undefined value, and every
\* value of it is a string, a number, a boolean or null.
C6_OutputIsMetadataValues ==
    sanCalls >= 1 =>
        \A i \in 1..Len(meta) :
            /\ meta[i][2] # Undefined
            /\ meta[i][2].t \in {"string", "number", "boolean", "null"}

\* C7: sanitizing a sanitized mapping changes nothing, and the first pass
\* keeps every string, number, boolean and null as it is.
C7_Idempotent ==
    /\ sanCalls = 2 => meta = prevMeta
    /\ sanCalls = 1 =>
          \A i \in 1..Len(prevMeta) :
              prevMeta[i][2].t \in {"string", "number", "boolean", "null"}
                  => \E j \in 1..Len(meta) : meta[j] = prevMeta[i]

-----------------------------------------------------------------------------
(* Properties of the citation list, checked under SpecCite.                *)

Label(d) ==
    formatCite(d.metadata)

FirstIndex(docs, label) ==
    CHOOSE i \in 1..Len(docs) :
        /\ Label(docs[i]) = label
        /\ \A j \in 1..(i - 1) : Label(docs[j]) # label

\* C10: the citation list has no label twice, holds only labels of
\* retrieved chunks, in the order of their first occurrence, and is the
\* first 5 distinct labels (all of them when there are fewer).
C10_Citations ==
    pc = "done" =>
        /\ \A i, j \in 1..Len(citations) : citations[i] = citations[j] => i = j
        /\ \A i \in 1..Len(citations) :
              \E n \in 1..Len(retrieved) : Label(retrieved[n]) = citations[i]
        /\ \A i, j \in 1..Len(citations) :
              i < j => FirstIndex(retrieved, citations[i]) < FirstIndex(retrieved, citations[j])
        /\ Len(citations) <= 5
        /\ Len(citations) = Min(5, Cardinality({Label(retrieved[n]) : n \in 1..Len(retrieved)}))
        /\ \A n \in 1..Len(retrieved) :
              (\A i \in 1..Len(citations) : citations[i] # Label(retrieved[n]))
                  => \A i \in 1..Len(citations) :
                        FirstIndex(retrieved, citations[i]) < n

C10_Witness ==
    /\ pc = "done"
    /\ Len(citations) = 5
    /\ Len(retrieved) = 7
    /\ Label(retrieved[1]) = Label(retrieved[3])
    /\ Label(retrieved[1]) # Label(retrieved[2])
    /\ \E n \in 1..Len(retrieved) :
          \A i \in 1..Len(citations) : citations[i] # Label(retrieved[n])

-----------------------------------------------------------------------------
(* formatCite of the chat CLI and of the search CLI, on their own.         *)

searchGetString(m, key) ==
    LET v == lookup(m, key)
    IN  IF v.t = "string" THEN v ELSE Null

searchGetNumber(m, key) ==
    LET v == lookup(m, key)
    IN  IF v.t = "number" /\ v.finite THEN v ELSE Null

searchFormatCite(m) ==
    LET f == searchGetString(m, "filename")
        filename == IF f = Null THEN "unknown" ELSE f.s
        page == searchGetNumber(m, "page")
    IN  IF page # Null
        THEN "[" \o filename \o " p." \o ToString(page.n) \o "]"
        ELSE "[" \o filename \o "]"

\* marks a key the mapping does not have
Absent == [t |-> "absent"]

Entry(key, v) ==
    IF v = Absent THEN <<>> ELSE <<<<key, v>>>>

FilenameValues ==
    {Absent, Undefined, Null, Str("a.pdf"), Str("b.txt"), Str(""), Num(7)}

PageValues ==
    {Absent, Undefined, Null, Num(3), Num(0), Num(-1), NaN, Str("3"), Bool(TRUE)}

\* the metadata mappings a retrieved chunk may carry
FormatMetas ==
    {Entry("filename", f) \o Entry("source", src) \o Entry("page", p) :
        f \in FilenameValues, src \in {Absent, Str("data/a.pdf")}, p \in PageValues}

InitFormat ==
    /\ pc = "formatCite"
    /\ ChatIdle
    /\ SanIdle
    /\ arg \in FormatMetas
    /\ result = <<>>
    /\ ingest = NoIngest

EvalFormatCite ==
    /\ pc = "formatCite"
    /\ result' = [chat |-> formatCite(arg), search |-> searchFormatCite(arg)]
    /\ pc' = "done"
    /\ UNCHANGED <<question, k, retrieved, score, enough, citations, context,
                   calls, printed, errout, rlOpen, exitCode, thrown, sanVars,
                   arg, ingest>>

NextFormat ==
    EvalFormatCite

SpecFormat == InitFormat /\ [][NextFormat]_vars

HasKeyOfType(m, key, type) ==
    \E i \in 1..Len(m) : m[i][1] = key /\ m[i][2].t = type

ValueOf(m, key) ==
    m[CHOOSE i \in 1..Len(m) : m[i][1] = key][2]

\* C11: the label is "[<filename> p.<page>]" when the metadata hold a
\* finite number as page and "[<filename>]" when they do not, with
\* "unknown" for a filename that is missing or not a string; the chat CLI
\* and the search CLI give the same label.
C11_Label ==
    pc = "done" =>
        LET name == IF HasKeyOfType(arg, "filename", "string")
                    THEN ValueOf(arg, "filename").s ELSE "unknown"
            paged == HasKeyOfType(arg, "page", "number") /\ ValueOf(arg, "page").finite
        IN  /\ paged => result.chat =
                    "[" \o name \o " p." \o ToString(ValueOf(arg, "page").n) \o "]"
            /\ ~paged => result.chat = "[" \o name \o "]"
            /\ result.search = result.chat
            /\ arg = <<<<"filename", Str("a.pdf")>>, <<"page", Num(3)>>>>
                  => result.chat = "[a.pdf p.3]"
            /\ arg = <<<<"filename", Str("b.txt")>>>> => result.chat = "[b.txt]"
            /\ ~(\E i \in 1..Len(arg) : arg[i][1] = "filename")
                  => \/ result.chat = "[unknown]"
                     \/ paged

C11_Witness ==
    /\ pc = "done"
    /\ arg = <<<<"filename", Num(7)>>, <<"page", Num(0)>>>>
    /\ result.chat = "[unknown p.0]"
    /\ result.search = "[unknown p.0]"

-----------------------------------------------------------------------------
(* One external call at a time, checked under Spec.                        *)

PendingCalls ==
    {i \in 1..Len(calls) : calls[i].status = "pending"}

\* the question a call was made for
CallSubject(c) ==
    IF c.fn = "similaritySearch" THEN c.query ELSE c.question

\* C12: at most one external call is in flight; it is the last call made,
\* it was made for the current question and main() is suspended on it; at a
\* prompt no call is in flight, and the question prompt comes back only
\* after every call of the iteration returned and the refusal or the answer
\* with its citations was printed.
C12_OneCallAtATime ==
    /\ Cardinality(PendingCalls) <= 1
    /\ \A i \in PendingCalls :
          /\ i = Len(calls)
          /\ CallSubject(calls[i]) = question
          /\ pc = (IF calls[i].fn = "similaritySearch" THEN "search" ELSE "invoke")
    /\ pc \in {"search", "invoke"} => PendingCalls # {}
    /\ pc \in {"question", "topk", "returned"} => PendingCalls = {}
    /\ \A i \in 1..Len(calls) : CallSubject(calls[i]) = question
    /\ (pc = "question" /\ calls # <<>>)
          => /\ \A i \in 1..Len(calls) : calls[i].status = "ok"
             /\ \/ HasLine("refusal") /\ Len(calls) = 1
                \/ HasLine("answer") /\ Len(calls) = 2
                     /\ printed[Len(printed)].kind = ""
                     /\ Cardinality({i \in 1..Len(printed) : printed[i].kind = "citation"})
                            = Len(citations)

C12_Witness ==
    /\ pc = "invoke"
    /\ Len(calls) = 2
    /\ calls[1].status = "ok"
    /\ calls[2].status = "pending"
    /\ PendingCalls = {2}

-----------------------------------------------------------------------------
(* The tokenizer on its own.                                               *)

txtHello ==
    <<"H", "e", "l", "l", "o", ",", " ", "W", "o", "r", "l", "d", "!">>

txtAbc ==
    <<"a", " ", "b", "b", " ", "c", "c", "c">>

txtTwice ==
    <<"c", "c", "c", " ", "a", "-", "C", "C", "C", "\t", "c", "c", "c">>

tokHello ==
    <<"h", "e", "l", "l", "o">>

tokWorld ==
    <<"w", "o", "r", "l", "d">>

tokCcc ==
    <<"c", "c", "c">>

TextChars ==
    {"a", "B", "7", " ", ","}

TokenizeInputs ==
    SeqsUpTo(TextChars, MaxTextLen)
        \cup {txtHello, txtAbc, txtTwice, qBoiling, qShort, qRepeat}

InitTokenize ==
    /\ pc = "tokenize"
    /\ ChatIdle
    /\ SanIdle
    /\ arg \in TokenizeInputs
    /\ result = <<>>
    /\ ingest = NoIngest

EvalTokenize ==
    /\ pc = "tokenize"
    /\ result' = tokenize(arg)
    /\ pc' = "done"
    /\ UNCHANGED <<question, k, retrieved, score, enough, citations, context,
                   calls, printed, errout, rlOpen, exitCode, thrown, sanVars,
                   arg, ingest>>

NextTokenize ==
    EvalTokenize

SpecTokenize == InitTokenize /\ [][NextTokenize]_vars

\* t[i] lower-cased is a letter or a digit
AlnumAt(t, i) ==
    IsAlnum(LowerMap[t[i]])

\* i..j is a maximal run of letters and digits of t
IsRun(t, i, j) ==
    /\ i <= j
    /\ \A x \in i..j : AlnumAt(t, x)
    /\ i = 1 \/ ~AlnumAt(t, i - 1)
    /\ j = Len(t) \/ ~AlnumAt(t, j + 1)

\* where the maximal runs of 3 characters or more start
LongRunStarts(t) ==
    {i \in 1..Len(t) : \E j \in (i + 2)..Len(t) : IsRun(t, i, j)}

RunEnd(t, i) ==
    CHOOSE j \in i..Len(t) : IsRun(t, i, j)

\* the start of the n-th such run
NthStart(t, n) ==
    CHOOSE i \in LongRunStarts(t) :
        Cardinality({x \in LongRunStarts(t) : x < i}) = n - 1

\* C14: tokenize returns, in order of appearance, the maximal runs of
\* letters and digits of the lower-cased text that are 3 characters or more
\* long, repeats included; no token is shorter and none holds another
\* character.
C14_MaximalRuns ==
    pc = "done" =>
        /\ Len(result) = Cardinality(LongRunStarts(arg))
        /\ \A n \in 1..Len(result) :
              /\ result[n] = [x \in 1..(RunEnd(arg, NthStart(arg, n)) - NthStart(arg, n) + 1)
                                |-> LowerMap[arg[NthStart(arg, n) + x - 1]]]
              /\ Len(result[n]) >= 3
              /\ \A x \in 1..Len(result[n]) : IsAlnum(result[n][x])
        /\ arg = txtHello => result = <<tokHello, tokWorld>>
        /\ arg = txtAbc => result = <<tokCcc>>

C14_Witness ==
    /\ pc = "done"
    /\ arg = txtTwice
    /\ result = <<tokCcc, tokCcc, tokCcc>>

-----------------------------------------------------------------------------
(* The choice of k in the chat CLI and in the search CLI, on its own.      *)

SEARCH_DEFAULT_TOP_K == 5

\* Number.isFinite(kParsed) && kParsed > 0 ? Math.floor(kParsed) : 5
searchChooseK(kInput) ==
    LET kParsed == Number(trim(kInput))
    IN  IF ~kParsed.nan /\ ~kParsed.neg /\ (kParsed.int > 0 \/ kParsed.frac)
        THEN kParsed.int
        ELSE SEARCH_DEFAULT_TOP_K

KChars ==
    {"0", "2", "5", ".", " ", "-", "a"}

InitTopK ==
    /\ pc = "chooseK"
    /\ ChatIdle
    /\ SanIdle
    /\ arg \in SeqsUpTo(KChars, MaxKLen)
    /\ result = <<>>
    /\ ingest = NoIngest

\* the k that either CLI passes to similaritySearch for the typed text
EvalTopK ==
    /\ pc = "chooseK"
    /\ result' = [chat |-> chooseK(arg), search |-> searchChooseK(arg)]
    /\ pc' = "done"
    /\ UNCHANGED <<question, k, retrieved, score, enough, citations, context,
                   calls, printed, errout, rlOpen, exitCode, thrown, sanVars,
                   arg, ingest>>

NextTopK ==
    EvalTopK

SpecTopK == InitTopK /\ [][NextTopK]_vars

\* the typed text parses to a finite number greater than 0
ParsesPositive(text) ==
    LET n == Number(trim(text))
    IN  ~n.nan /\ ~n.neg /\ (n.int > 0 \/ n.frac)

\* C15: k is at least 1: the floor of the parsed number when that is finite
\* and greater than 0, else the default, 8 in the chat CLI and 5 in the
\* search CLI.
C15_PositiveTopK ==
    pc = "done" =>
        /\ result.chat >= 1
        /\ result.search >= 1
        /\ ParsesPositive(arg) =>
              /\ result.chat = Number(trim(arg)).int
              /\ result.search = Number(trim(arg)).int
        /\ ~ParsesPositive(arg) => (result.chat = 8 /\ result.search = 5)

-----------------------------------------------------------------------------
(* Ingestion: loaders.ts and the ingest CLI.                               *)

pathPdf == <<"/", "d", "/", "a", ".", "p", "d", "f">>
pathTxt == <<"n", "o", "t", "e", "s", ".", "t", "x", "t">>
pathDir == <<"/", "d", "/", "s", "u", "b", "/">>
pathRoot == <<"/">>

\* the source paths a loader attaches, as characters
SourcePaths ==
    {pathPdf, pathTxt, pathDir, pathRoot, <<>>}

\* a path as the string value that sits in the metadata
pathText(chars) ==
    joinText(chars, "")

\* the characters of a string value
charsOf(text) ==
    CHOOSE p \in SourcePaths : pathText(p) = text

\* path.basename(p): trailing separators are dropped, then everything up to
\* and including the last separator
RECURSIVE stripSlashes(_)
stripSlashes(p) ==
    IF p # <<>> /\ p[Len(p)] = "/" THEN stripSlashes(SubSeq(p, 1, Len(p) - 1))
    ELSE p

basename(p) ==
    LET q == stripSlashes(p)
        seps == {i \in 1..Len(q) : q[i] = "/"}
        last == IF seps = {} THEN 0 ELSE CHOOSE i \in seps : \A j \in seps : j <= i
    IN  SubSeq(q, last + 1, Len(q))

extractPdfPage(metadata) ==
    LET loc == lookup(metadata, "loc")
    IN  IF loc.t = "object"
        THEN LET pageNumber == IF loc.class = "Object" /\ ~loc.cyclic
                               THEN lookup(loc.props, "pageNumber")
                               ELSE Undefined
             IN  IF pageNumber.t = "number" /\ pageNumber.finite
                 THEN pageNumber
                 ELSE Null
        ELSE Null

\* the mapping built for one document before it is sanitized
normalized(metadata) ==
    LET src == lookup(metadata, "source")
        sourcePath == IF src.t = "string" THEN src.s ELSE ""
        filename == IF sourcePath # "" THEN pathText(basename(charsOf(sourcePath)))
                    ELSE "unknown"
    IN  <<<<"filename", Str(filename)>>,
          <<"source", Str(sourcePath)>>,
          <<"page", extractPdfPage(metadata)>>>>

\* loadDocuments with the loader's own metadata sanitized and kept
loadDocuments_KeepLoader(docs) ==
    [i \in 1..Len(docs) |->
        Doc(docs[i].pageContent, sanitizeForChromaMetadata(docs[i].metadata))]

\* the loop of loadDocuments over the documents loader.load() resolved to
loadDocuments(docs) ==
    [i \in 1..Len(docs) |->
        Doc(docs[i].pageContent,
            sanitizeForChromaMetadata(normalized(docs[i].metadata)))]

pdfInfo == Obj(<<<<"version", Str("1.10.100")>>, <<"totalPages", Num(4)>>>>)

\* metadata as the loaders attach it: PDFLoader (source, pdf, loc), TextLoader
\* (source), and shapes another loader version may produce
LoaderMetas ==
    {<<<<"source", Str(pathText(pathPdf))>>, <<"pdf", pdfInfo>>,
       <<"loc", Obj(<<<<"pageNumber", Num(3)>>>>)>>>>,
     <<<<"source", Str(pathText(pathTxt))>>>>,
     <<<<"source", Str(pathText(pathDir))>>, <<"loc", Obj(<<<<"pageNumber", NaN>>>>)>>>>,
     <<<<"source", Str("")>>, <<"loc", Str("3")>>>>,
     <<<<"source", Num(7)>>, <<"loc", Null>>>>,
     <<<<"pdf", pdfInfo>>, <<"loc", Obj(<<<<"pageNumber", Str("3")>>>>)>>>>,
     <<<<"source", Str(pathText(pathRoot))>>, <<"loc", Arr(<<Num(3)>>)>>>>}

LoaderDocs ==
    {Doc(txtBoils, m) : m \in LoaderMetas}

\* the line range the text splitter adds to the metadata of a chunk
chunkLoc ==
    Obj(<<<<"lines", Obj(<<<<"from", Num(1)>>, <<"to", Num(1)>>>>)>>>>)

\* The chunks of splitDocuments: for each document, in order, `counts[i]`
\* chunks that carry its metadata, with the splitter's own `loc` when it
\* records line ranges.
RECURSIVE chunksOf(_, _, _)
chunksOf(docs, counts, withLoc) ==
    IF docs = <<>> THEN <<>>
    ELSE LET d == Head(docs)
             m == IF withLoc THEN Append(d.metadata, <<"loc", chunkLoc>>)
                  ELSE d.metadata
         IN  [j \in 1..Head(counts) |-> Doc(d.pageContent, m)]
             \o chunksOf(Tail(docs), Tail(counts), withLoc)

IngestIdle ==
    /\ ChatIdle
    /\ SanIdle
    /\ arg = <<>>
    /\ result = <<>>

InitIngest ==
    /\ pc = "reset"
    /\ IngestIdle
    /\ ingest = NoIngest

\* resetCollectionIfNeeded with RESET_COLLECTION off, then loadDocuments is
\* called
ResetSkipped ==
    /\ pc = "reset"
    /\ pc' = "load"
    /\ UNCHANGED <<question, k, retrieved, score, enough, citations, context,
                   calls, printed, errout, rlOpen, exitCode, thrown, sanVars, auxVars>>

\* deleteCollection resolves
ResetDeletes ==
    /\ pc = "reset"
    /\ calls' = Append(calls, [fn |-> "deleteCollection", status |-> "ok"])
    /\ printed' = Append(printed, Line("Deleted collection"))
    /\ pc' = "load"
    /\ UNCHANGED <<question, k, retrieved, score, enough, citations, context,
                   errout, rlOpen, exitCode, thrown, sanVars, auxVars>>

\* deleteCollection rejects and the catch block swallows the error
ResetSwallows ==
    /\ pc = "reset"
    /\ calls' = Append(calls, [fn |-> "deleteCollection", status |-> "failed"])
    /\ pc' = "load"
    /\ UNCHANGED <<question, k, retrieved, score, enough, citations, context,
                   printed, errout, rlOpen, exitCode, thrown, sanVars, auxVars>>

\* loader.load() resolves; the metadata is normalized; main returns on an
\* empty result and calls splitDocuments otherwise
LoadReturns ==
    /\ pc = "load"
    /\ \E docs \in SeqsUpTo(LoaderDocs, MaxLoaded) :
          LET rawDocs == loadDocuments(docs)
          IN  IF Len(rawDocs) = 0
              THEN /\ ingest' = [ingest EXCEPT !.loaded = docs, !.rawDocs = rawDocs]
                   /\ printed' = Append(printed, Line("No documents found"))
                   /\ pc' = "returned"
              ELSE /\ ingest' = [ingest EXCEPT !.loaded = docs, !.rawDocs = rawDocs,
                                               !.splitCalled = TRUE,
                                               !.splitArg = rawDocs]
                   /\ printed' = printed
                   /\ pc' = "split"
    /\ UNCHANGED <<question, k, retrieved, score, enough, citations, context,
                   calls, errout, rlOpen, exitCode, thrown, sanVars, arg, result>>

\* splitDocuments resolves and addDocuments is called with the chunks
SplitReturns ==
    /\ pc = "split"
    /\ \E counts \in [1..Len(ingest.splitArg) -> 0..MaxChunksPerDoc], withLoc \in BOOLEAN :
          LET chunks == chunksOf(ingest.splitArg, counts, withLoc)
          IN  ingest' = [ingest EXCEPT !.chunks = chunks, !.addCalled = TRUE,
                                       !.addArg = chunks]
    /\ pc' = "add"
    /\ UNCHANGED <<question, k, retrieved, score, enough, citations, context,
                   calls, printed, errout, rlOpen, exitCode, thrown, sanVars,
                   arg, result>>

\* addDocuments resolves: the chunks are in the collection and the summary
\* is printed
AddReturns ==
    /\ pc = "add"
    /\ ingest' = [ingest EXCEPT !.stored = ingest.addArg]
    /\ printed' = printed \o <<Line("Ingest complete."), Line("Documents"),
                               Line("Chunks"), Line("Chroma collection")>>
    /\ pc' = "returned"
    /\ UNCHANGED <<question, k, retrieved, score, enough, citations, context,
                   calls, errout, rlOpen, exitCode, thrown, sanVars, arg, result>>

\* loadDocuments, splitDocuments or addDocuments rejects: main rejects
IngestFails ==
    /\ pc \in {"load", "split", "add"}
    /\ thrown' \in {"Error", "other"}
    /\ pc' = "rejected"
    /\ UNCHANGED <<question, k, retrieved, score, enough, citations, context,
                   calls, printed, errout, rlOpen, exitCode, sanVars, auxVars>>

\* main().catch(...) of the ingest CLI
IngestCatch ==
    /\ pc = "rejected"
    /\ errout' = IF thrown = "Error"
                 THEN errout \o <<Line("err.message"), Line("err.stack")>>
                 ELSE Append(errout, Line("err"))
    /\ exitCode' = 1
    /\ pc' = "exited"
    /\ UNCHANGED <<question, k, retrieved, score, enough, citations, context,
                   calls, printed, rlOpen, thrown, sanVars, auxVars>>

NextIngest ==
    \/ ResetSkipped
    \/ ResetDeletes
    \/ ResetSwallows
    \/ LoadReturns
    \/ SplitReturns
    \/ AddReturns
    \/ IngestFails
    \/ IngestCatch

SpecIngest == InitIngest /\ [][NextIngest]_vars

keysOf(m) ==
    {m[i][1] : i \in 1..Len(m)}

\* the mapping has the entries of the produced schema, with the stated types
HasSchema(m) ==
    /\ {"filename", "source", "page"} \subseteq keysOf(m)
    /\ \A i, j \in 1..Len(m) : m[i][1] = m[j][1] => i = j
    /\ lookup(m, "filename").t = "string"
    /\ lookup(m, "source").t = "string"
    /\ \/ lookup(m, "page") = Null
       \/ lookup(m, "page").t = "number" /\ lookup(m, "page").finite

\* the source path the loader gave is a non-empty string
HasSourcePath(m) ==
    lookup(m, "source").t = "string" /\ lookup(m, "source").s # ""

\* C13: every loaded document reaches the splitter with exactly the keys
\* filename (string, "unknown" without a source path), source (string) and
\* page (finite number or null); every chunk handed to addDocuments carries
\* those entries of a loaded document and no object the loader attached; and
\* with no documents loaded addDocuments is not called and nothing is stored.
C13_SanitizedBeforeStore ==
    /\ ingest.splitCalled =>
          /\ Len(ingest.splitArg) = Len(ingest.loaded)
          /\ \A i \in 1..Len(ingest.splitArg) :
                LET m == ingest.splitArg[i].metadata
                    raw == ingest.loaded[i].metadata
                IN  /\ HasSchema(m)
                    /\ keysOf(m) = {"filename", "source", "page"}
                    /\ ~HasSourcePath(raw) =>
                          /\ lookup(m, "filename") = Str("unknown")
                          /\ lookup(m, "source") = Str("")
                    /\ HasSourcePath(raw) => lookup(m, "source") = lookup(raw, "source")
    /\ ingest.addCalled =>
          \A c \in 1..Len(ingest.addArg) :
             LET m == ingest.addArg[c].metadata
             IN  /\ HasSchema(m)
                 /\ \E i \in 1..Len(ingest.splitArg) :
                       \A key \in {"filename", "source", "page"} :
                          lookup(m, key) = lookup(ingest.splitArg[i].metadata, key)
                 /\ \A j \in 1..Len(m) :
                       m[j][2].t = "object" => m[j][2] = chunkLoc
    /\ ingest.stored \in {<<>>, ingest.addArg}
    /\ (pc \in {"returned", "exited"} /\ ingest.loaded = <<>>) =>
          ~ingest.addCalled /\ ingest.stored = <<>>

\* a PDF page and a document without a source string were loaded, split and
\* written to the store
C13_Witness ==
    /\ pc = "returned"
    /\ Len(ingest.loaded) = 2
    /\ lookup(ingest.loaded[1].metadata, "pdf") = pdfInfo
    /\ ~HasSourcePath(ingest.loaded[2].metadata)
    /\ Len(ingest.stored) >= 2
    /\ lookup(ingest.stored[1].metadata, "page") = Num(3)
    /\ lookup(ingest.stored[1].metadata, "filename") = Str("a.pdf")
    /\ lookup(ingest.stored[Len(ingest.stored)].metadata, "filename") = Str("unknown")

====
